---- MODULE Spec2Model ----
(***************************************************************************)
(* A model of the Demake backend (sanjeebSubedi/Demake-Backend): the       *)
(* relational store (users, tweets, likes, retweets, follows) and the      *)
(* request handlers that read and write it.  Each handler is cut at its    *)
(* database statements, so that requests of different workers interleave   *)
(* the way they do under the web server; a handler that issues a single    *)
(* statement is one action.                                                *)
(***************************************************************************)
EXTENDS Integers, FiniteSets, Sequences, TLC

VARIABLES
    users,      \* table users: set of rows [id, email, username, password, verified_on, profile columns]
    tweets,     \* table tweets: tweet id -> [user_id, content, media_url, parent_tweet_id, created_at]
    likes,      \* table likes: row [tweet_id, user_id] -> how many rows hold it
    retweets,   \* table retweets: row [tweet_id, user_id] -> how many rows hold it
    follows,    \* table follows: set of rows [follower_id, followed_id]
    nextId,     \* the next fresh tweet id (uuid4 never repeats)
    now,        \* the clock (datetime.now()), in hours
    mail,       \* the verification tokens mailed so far
    req,        \* per worker: the request it is serving and where it stands
    response    \* the response sent by the step just taken, if it sent one

vars == <<users, tweets, likes, retweets, follows, nextId, now, mail, req, response>>
tables == <<users, tweets, likes, retweets, follows>>

(***************************************************************************)
(* Bounds of the model.                                                    *)
(***************************************************************************)
MaxTweets == 2          \* tweet ids ever allocated
MaxTime == 3            \* hours the clock runs (SpecAuth)

Procs == {"p1", "p2"}   \* concurrent request workers
SeedUserIds == {1, 2}   \* the accounts that exist in the content and graph models
TweetIds == 1..MaxTweets
None == 0               \* Python None / SQL NULL for ids

(***************************************************************************)
(* Program constants.                                                      *)
(***************************************************************************)
MaxTweetLength == 280

(***************************************************************************)
(* Exceptions and their HTTP status.  The exception classes and their      *)
(* bases are in src/*/exceptions.py; the status of each base class is in   *)
(* src/exceptions.py.                                                      *)
(***************************************************************************)
BaseOf(exc) ==
    CASE exc = "InvaildParentTweet" -> "BadRequest"
      [] exc = "TweetNotFound" -> "NotFound"
      [] exc = "NonOwnerDelete" -> "PermissionDenied"
      [] exc = "MediaUploadError" -> "DetailedHTTPException"
      [] exc = "EmptyTweetException" -> "BadRequest"
      [] exc = "TweetOverflowException" -> "BadRequest"
      [] exc = "EmptyTweetToneRequestError" -> "BadRequest"
      [] exc = "AlreadyLiked" -> "BadRequest"
      [] exc = "LikeNotFound" -> "NotFound"
      [] exc = "AlreadyRetweeted" -> "BadRequest"
      [] exc = "RetweetNotFound" -> "NotFound"
      [] exc = "UserNotFound" -> "NotFound"
      [] exc = "FollowExists" -> "BadRequest"
      [] exc = "FollowNotExists" -> "BadRequest"
      [] exc = "SelfFollowException" -> "BadRequest"
      [] exc = "InvalidCredentials" -> "NotAuthenticated"
      [] exc = "EmailTakenException" -> "BadRequest"
      [] exc = "UsernameTakenException" -> "BadRequest"
      [] OTHER -> "Unhandled"

StatusOfBase(base) ==
    CASE base = "BadRequest" -> 400
      [] base = "NotAuthenticated" -> 401
      [] base = "PermissionDenied" -> 403
      [] base = "NotFound" -> 404
      [] OTHER -> 500

\* The classes of users/exceptions.py that set STATUS_CODE themselves, and
\* save_image's HTTPException(status_code=400).
OwnStatus(exc) ==
    CASE exc = "VerificationLinkExpired" -> 410
      [] exc = "BadSignature" -> 401
      [] exc = "Invalid file format" -> 400
      [] OTHER -> None

StatusCode(exc) ==
    IF OwnStatus(exc) # None THEN OwnStatus(exc) ELSE StatusOfBase(BaseOf(exc))

(***************************************************************************)
(* Requests and responses.                                                 *)
(***************************************************************************)
Idle == [op |-> "idle"]
NoResponse == [op |-> "none"]

IsIdle(p) == req[p].op = "idle"
At(p, op, pc) == req[p].op = op /\ req[p].pc = pc

\* The handler raised exc: the framework answers with its status.
Raise(r, exc) == [r EXCEPT !.status = StatusCode(exc), !.error = exc]

Finish(p, r) ==
    /\ req' = [req EXCEPT ![p] = Idle]
    /\ response' = r

Continue(p, r) ==
    /\ req' = [req EXCEPT ![p] = r]
    /\ response' = NoResponse

(***************************************************************************)
(* Tweet content.  A content is None, a string of whitespace only (the     *)
(* empty string is the one of length 0) or a string with visible text.     *)
(***************************************************************************)
NoContent == [kind |-> "none", len |-> 0]
Blank(n) == [kind |-> "blank", len |-> n]
Text(n) == [kind |-> "text", len |-> n]

ContentLens == {MaxTweetLength, MaxTweetLength + 1}
Contents ==
    {NoContent, Blank(0)} \cup {Blank(n) : n \in ContentLens}
        \cup {Text(n) : n \in ContentLens}

\* Python truthiness of a str | None
Truthy(c) == c.kind # "none" /\ c.len > 0
\* (mutant) content == "", the strip() forgotten
StripIsEmpty_NoStrip(c) == c.kind = "blank" /\ c.len = 0

\* content.strip() == ""
StripIsEmpty(c) == c.kind = "blank"

Tones == {"none", "formal"}
ToneGiven(tone) == tone # "none"

Medias == {"none", "image/png", "text/plain"}
ALLOWED_TYPES == {"image/jpeg", "image/png", "image/gif", "video/mp4", "video/webm"}

\* What change_tweet_tone may return: the model's answer, stripped, cut at
\* the first blank line and stripped again: empty, or visible text of any length.
Revisions == {Blank(0)} \cup {Text(n) : n \in ContentLens}

TweetExists(t) == t \in DOMAIN tweets

(***************************************************************************)
(* A table whose rows carry a surrogate id (likes, retweets) is a function *)
(* from the row's columns to the number of rows that hold them: only a     *)
(* constraint keeps that number at one.                                    *)
(***************************************************************************)
EmptyTable == [x \in {} |-> 0]
Copies(T, row) == IF row \in DOMAIN T THEN T[row] ELSE 0
Has(T, row) == Copies(T, row) > 0
InsertRow(T, row) ==
    [x \in DOMAIN T \cup {row} |-> IF x = row THEN Copies(T, x) + 1 ELSE T[x]]
DeleteRow(T, row) ==
    [x \in {y \in DOMAIN T : y # row \/ T[y] > 1} |->
        IF x = row THEN T[x] - 1 ELSE T[x]]
\* (mutant) a delete that leaves the dependent rows behind
DeleteWhere_Nothing(T, gone) == T

\* the rows that go with their tweets (relationship cascade, ON DELETE CASCADE)
DeleteWhere(T, gone) ==
    [x \in {y \in DOMAIN T : y.tweet_id \notin gone} |-> T[x]]
\* the rows themselves, each with its own identity
Rows(T) == UNION {{<<x, i>> : i \in 1..T[x]} : x \in DOMAIN T}
RowsOfTweet(T, t) == {r \in Rows(T) : r[1].tweet_id = t}

(***************************************************************************)
(* POST /tweets: the router's validation, then create_new_tweet up to its  *)
(* parent query.                                                           *)
(***************************************************************************)
create_tweet(p, u, content, tone, parent_tweet_id, media) ==
    LET r == [op |-> "create_tweet", pc |-> "insert", user |-> u,
              content |-> content, tone |-> tone,
              parent_tweet_id |-> parent_tweet_id, media |-> media,
              status |-> 0, error |-> "", tweet_id |-> None, stored |-> NoContent]
    IN
    /\ IsIdle(p)
    /\ UNCHANGED <<tables, nextId, now, mail>>
    /\ IF ~Truthy(content) \/ StripIsEmpty(content)
       THEN IF ToneGiven(tone)
            THEN Finish(p, Raise(r, "EmptyTweetToneRequestError"))
            ELSE IF media = "none"
                 THEN Finish(p, Raise(r, "EmptyTweetException"))
                 ELSE IF parent_tweet_id # None /\ ~TweetExists(parent_tweet_id)
                      THEN Finish(p, Raise(r, "InvaildParentTweet"))
                      ELSE Continue(p, r)
       ELSE IF content.len > MaxTweetLength
            THEN Finish(p, Raise(r, "TweetOverflowException"))
            ELSE IF parent_tweet_id # None /\ ~TweetExists(parent_tweet_id)
                 THEN Finish(p, Raise(r, "InvaildParentTweet"))
                 ELSE Continue(p, r)

(***************************************************************************)
(* create_new_tweet after the parent query: save the media, rewrite the    *)
(* content in the requested tone, insert the row and commit.               *)
(***************************************************************************)
NewTweetContent(content, revised_tweet) ==
    IF Truthy(revised_tweet) THEN revised_tweet ELSE content

\* (mutant) tweets.parent_tweet_id without its foreign key
ParentKeyViolates_NoKey(parent_tweet_id) == FALSE

\* ForeignKey("tweets.id") on tweets.parent_tweet_id, checked at the insert
ParentKeyViolates(parent_tweet_id) ==
    parent_tweet_id # None /\ ~TweetExists(parent_tweet_id)

create_new_tweet(p, revised) ==
    /\ At(p, "create_tweet", "insert")
    /\ LET r == req[p]
           revised_tweet == IF ToneGiven(r.tone) THEN revised ELSE NoContent
           content == NewTweetContent(r.content, revised_tweet)
       IN
       IF r.media # "none" /\ r.media \notin ALLOWED_TYPES
       THEN \* save_tweet_media raises, create_new_tweet turns it into MediaUploadError
            /\ Finish(p, Raise(r, "MediaUploadError"))
            /\ UNCHANGED <<tables, nextId, now, mail>>
       ELSE IF \/ content.kind = "none"
               \/ ParentKeyViolates(r.parent_tweet_id)
            THEN \* NOT NULL or foreign-key violation at commit: not caught
                 /\ Finish(p, Raise(r, "IntegrityError"))
                 /\ UNCHANGED <<tables, nextId, now, mail>>
            ELSE /\ nextId <= MaxTweets
                 /\ tweets' = [t \in DOMAIN tweets \cup {nextId} |->
                                 IF t = nextId
                                 THEN [user_id |-> r.user, content |-> content,
                                       media_url |-> r.media # "none",
                                       parent_tweet_id |-> r.parent_tweet_id,
                                       created_at |-> now]
                                 ELSE tweets[t]]
                 /\ nextId' = nextId + 1
                 /\ Finish(p, [r EXCEPT !.status = 201, !.tweet_id = nextId,
                                        !.stored = content])
                 /\ UNCHANGED <<users, likes, retweets, follows, now, mail>>

(***************************************************************************)
(* DELETE /tweets/{tweet_id}.  The row is looked up by id AND owner; the   *)
(* delete removes it together with what the schema cascades to: the        *)
(* tweet's replies (tweets.parent_tweet_id ON DELETE CASCADE), and the     *)
(* likes and retweets of every removed tweet.                              *)
(***************************************************************************)
RECURSIVE Cascade(_)
Cascade(S) ==
    LET replies == {x \in DOMAIN tweets : tweets[x].parent_tweet_id \in S}
    IN IF replies \subseteq S THEN S ELSE Cascade(S \cup replies)

OwnedTweet(tweet_id, current_user_id) ==
    TweetExists(tweet_id) /\ tweets[tweet_id].user_id = current_user_id

delete_tweet(p, current_user_id, tweet_id) ==
    LET r == [op |-> "delete_tweet", user |-> current_user_id,
              tweet_id |-> tweet_id, status |-> 0, error |-> ""]
    IN
    /\ IsIdle(p)
    /\ IF ~OwnedTweet(tweet_id, current_user_id)
       THEN /\ Finish(p, Raise(r, "TweetNotFound"))
            /\ UNCHANGED <<tables, nextId, now, mail>>
       ELSE LET gone == Cascade({tweet_id})
            IN /\ tweets' = [t \in DOMAIN tweets \ gone |-> tweets[t]]
               /\ likes' = DeleteWhere(likes, gone)
               /\ retweets' = DeleteWhere(retweets, gone)
               /\ Finish(p, [r EXCEPT !.status = 200])
               /\ UNCHANGED <<users, follows, nextId, now, mail>>

(***************************************************************************)
(* POST /likes: create_like in three statements: the tweet query, the      *)
(* insert and commit, the refresh and count.                               *)
(***************************************************************************)
LikeRow(t, u) == [tweet_id |-> t, user_id |-> u]

\* (mutant) an insert that failed and was not rolled back
RolledBack_Kept(T, row) == InsertRow(T, row)

\* except IntegrityError: db.rollback(): the table without the pending row
RolledBack(T, row) == T

\* db.query(func.count(Like.id)).filter(Like.tweet_id == Like.tweet_id)
LikeCountQuery(tweet_id) ==
    Cardinality({l \in Rows(likes) : l[1].tweet_id = l[1].tweet_id})

create_like(p, current_user_id, tweet_id) ==
    LET r == [op |-> "create_like", pc |-> "insert", user |-> current_user_id,
              tweet_id |-> tweet_id, status |-> 0, error |-> "", like_count |-> 0]
    IN
    /\ IsIdle(p)
    /\ UNCHANGED <<tables, nextId, now, mail>>
    /\ IF ~TweetExists(tweet_id)
       THEN Finish(p, Raise(r, "TweetNotFound"))
       ELSE Continue(p, r)

\* (mutant) the likes table without its unique constraint
LikeInsertViolates_NoUnique(row) == ~TweetExists(row.tweet_id)

\* uq_like_tweet_user, and the foreign key likes.tweet_id -> tweets.id
LikeInsertViolates(row) == Has(likes, row) \/ ~TweetExists(row.tweet_id)

create_like_insert(p) ==
    /\ At(p, "create_like", "insert")
    /\ UNCHANGED <<users, tweets, retweets, follows, nextId, now, mail>>
    /\ LET r == req[p]
           row == LikeRow(r.tweet_id, r.user)
       IN IF LikeInsertViolates(row)
          THEN \* IntegrityError: rolled back, raised as AlreadyLiked
               /\ likes' = RolledBack(likes, row)
               /\ Finish(p, Raise(r, "AlreadyLiked"))
          ELSE /\ likes' = InsertRow(likes, row)
               /\ Continue(p, [r EXCEPT !.pc = "count"])

create_like_count(p) ==
    /\ At(p, "create_like", "count")
    /\ UNCHANGED <<tables, nextId, now, mail>>
    /\ LET r == req[p]
       IN IF ~Has(likes, LikeRow(r.tweet_id, r.user))
          THEN \* db.refresh of a row that is gone: InvalidRequestError, not caught
               Finish(p, Raise(r, "InvalidRequestError"))
          ELSE Finish(p, [r EXCEPT !.status = 201,
                                   !.like_count = LikeCountQuery(r.tweet_id)])

(***************************************************************************)
(* DELETE /likes/{tweet_id}: delete_like: the like query, the delete and   *)
(* commit, the count.                                                      *)
(***************************************************************************)
delete_like(p, current_user_id, tweet_id) ==
    LET r == [op |-> "delete_like", pc |-> "delete", user |-> current_user_id,
              tweet_id |-> tweet_id, status |-> 0, error |-> "", like_count |-> 0]
    IN
    /\ IsIdle(p)
    /\ UNCHANGED <<tables, nextId, now, mail>>
    /\ IF ~Has(likes, LikeRow(tweet_id, current_user_id))
       THEN Finish(p, Raise(r, "LikeNotFound"))
       ELSE Continue(p, r)

delete_like_commit(p) ==
    /\ At(p, "delete_like", "delete")
    /\ likes' = DeleteRow(likes, LikeRow(req[p].tweet_id, req[p].user))
    /\ Continue(p, [req[p] EXCEPT !.pc = "count"])
    /\ UNCHANGED <<users, tweets, retweets, follows, nextId, now, mail>>

delete_like_count(p) ==
    /\ At(p, "delete_like", "count")
    /\ UNCHANGED <<tables, nextId, now, mail>>
    /\ Finish(p, [req[p] EXCEPT !.status = 200,
                                !.like_count = LikeCountQuery(req[p].tweet_id)])

(***************************************************************************)
(* create_retweet / delete_retweet (src/retweet/service.py).               *)
(***************************************************************************)
\* a Retweet row: created_at is the time of the insert (server_default now())
RetweetRow(t, u) == [tweet_id |-> t, user_id |-> u, created_at |-> now]

\* the Retweet rows of a (tweet, user) pair
RetweetsOfPair(t, u) ==
    {row \in DOMAIN retweets :
        row.tweet_id = t /\ row.user_id = u /\ retweets[row] > 0}

\* uq_retweet_tweet_user, and the foreign key retweets.tweet_id -> tweets.id
RetweetInsertViolates(row) ==
    RetweetsOfPair(row.tweet_id, row.user_id) # {} \/ ~TweetExists(row.tweet_id)

create_retweet(p, current_user_id, tweet_id) ==
    LET r == [op |-> "create_retweet", pc |-> "insert", user |-> current_user_id,
              tweet_id |-> tweet_id, status |-> 0, error |-> ""]
    IN
    /\ IsIdle(p)
    /\ UNCHANGED <<tables, nextId, now, mail>>
    /\ IF ~TweetExists(tweet_id)
       THEN Finish(p, Raise(r, "TweetNotFound"))
       ELSE Continue(p, r)

create_retweet_insert(p) ==
    /\ At(p, "create_retweet", "insert")
    /\ UNCHANGED <<users, tweets, likes, follows, nextId, now, mail>>
    /\ LET r == req[p]
           row == RetweetRow(r.tweet_id, r.user)
       IN IF RetweetInsertViolates(row)
          THEN /\ retweets' = RolledBack(retweets, row)
               /\ Finish(p, Raise(r, "AlreadyRetweeted"))
          ELSE /\ retweets' = InsertRow(retweets, row)
               /\ Continue(p, [r EXCEPT !.pc = "refresh"])

create_retweet_refresh(p) ==
    /\ At(p, "create_retweet", "refresh")
    /\ UNCHANGED <<tables, nextId, now, mail>>
    /\ LET r == req[p]
       IN IF RetweetsOfPair(r.tweet_id, r.user) = {}
          THEN Finish(p, Raise(r, "InvalidRequestError"))
          ELSE Finish(p, [r EXCEPT !.status = 201])

delete_retweet(p, current_user_id, tweet_id) ==
    LET r == [op |-> "delete_retweet", pc |-> "delete", user |-> current_user_id,
              tweet_id |-> tweet_id, status |-> 0, error |-> ""]
    IN
    /\ IsIdle(p)
    /\ UNCHANGED <<tables, nextId, now, mail>>
    /\ IF RetweetsOfPair(tweet_id, current_user_id) = {}
       THEN Finish(p, Raise(r, "RetweetNotFound"))
       ELSE Continue(p, r)

delete_retweet_commit(p) ==
    /\ At(p, "delete_retweet", "delete")
    /\ retweets' =
          LET found == RetweetsOfPair(req[p].tweet_id, req[p].user)
          IN IF found = {} THEN retweets
             ELSE DeleteRow(retweets, CHOOSE row \in found : TRUE)
    /\ Finish(p, [req[p] EXCEPT !.status = 200])
    /\ UNCHANGED <<users, tweets, likes, follows, nextId, now, mail>>


(***************************************************************************)
(* GET /tweets/{tweet_id}: get_tweet_details.  One query joins the tweet   *)
(* with its likes and with its retweets (two outer joins) and counts the   *)
(* non-null Like.id and Retweet.id of the joined rows; a second query      *)
(* pages the ids of the replies, newest first.                             *)
(***************************************************************************)
NULL == <<>>
OuterSide(rows) == IF rows = {} THEN {NULL} ELSE rows

\* Tweet LEFT OUTER JOIN Like LEFT OUTER JOIN Retweet, for one tweet
TweetJoin(tweet_id) ==
    OuterSide(RowsOfTweet(likes, tweet_id))
        \X OuterSide(RowsOfTweet(retweets, tweet_id))

JoinLikeCount(tweet_id) ==
    Cardinality({j \in TweetJoin(tweet_id) : j[1] # NULL})
JoinRetweetCount(tweet_id) ==
    Cardinality({j \in TweetJoin(tweet_id) : j[2] # NULL})

\* ids of a set of tweets, newest first (ids are allocated in creation order)
RECURSIVE NewestFirst(_)
NewestFirst(S) ==
    IF S = {} THEN <<>>
    ELSE LET m == CHOOSE x \in S : \A y \in S : y <= x
         IN <<m>> \o NewestFirst(S \ {m})

\* .offset(skip).limit(limit)
Page(seq, skip, limit) ==
    SubSeq(seq, skip + 1, IF skip + limit < Len(seq) THEN skip + limit ELSE Len(seq))

ReplyIds(tweet_id) ==
    NewestFirst({x \in DOMAIN tweets : tweets[x].parent_tweet_id = tweet_id})

get_tweet_details(p, tweet_id, reply_skip, reply_limit) ==
    LET r == [op |-> "get_tweet_details", tweet_id |-> tweet_id,
              status |-> 0, error |-> "", like_count |-> 0, retweet_count |-> 0,
              reply_ids |-> <<>>]
    IN
    /\ IsIdle(p)
    /\ UNCHANGED <<tables, nextId, now, mail>>
    /\ IF ~TweetExists(tweet_id)
       THEN Finish(p, Raise(r, "TweetNotFound"))
       ELSE Finish(p, [r EXCEPT !.status = 200,
                                !.like_count = JoinLikeCount(tweet_id),
                                !.retweet_count = JoinRetweetCount(tweet_id),
                                !.reply_ids = Page(ReplyIds(tweet_id), reply_skip, reply_limit)])

(***************************************************************************)
(* The store after start-up: the seed accounts exist and are verified, no  *)
(* content yet, every worker idle.                                         *)
(***************************************************************************)
Emails == {"a@x.org", "b@x.org"}
Usernames == {"ann", "bob"}
Passwords == {"pw1", "pw2"}

\* src/utils.py: hash(password), verify(plain, hashed)
hash(password) == <<"hashed", password>>
verify(plain_password, hashed_password) == hashed_password = hash(plain_password)

\* Python None in a column of strings
NoneStr == "<None>"

\* The profile columns of a new row: full_name as signed up with, the
\* optional ones not given.
NewProfile ==
    [full_name |-> "name", bio |-> NoneStr, location |-> NoneStr,
     birth_date |-> NoneStr, profile_image_url |-> NoneStr,
     header_image_url |-> NoneStr]

UserRow(id, email, username, password, verified_on) ==
    [id |-> id, email |-> email, username |-> username, password |-> password,
     verified_on |-> verified_on] @@ NewProfile

SeedUsers ==
    {UserRow(u, <<"a@x.org", "b@x.org">>[u], <<"ann", "bob">>[u], hash("pw1"), 1) :
        u \in SeedUserIds}

Init ==
    /\ users = SeedUsers
    /\ tweets = [t \in {} |-> 0]
    /\ likes = EmptyTable
    /\ retweets = EmptyTable
    /\ follows = {}
    /\ nextId = 1
    /\ now = 1
    /\ mail = {}
    /\ req = [p \in Procs |-> Idle]
    /\ response = NoResponse

(***************************************************************************)
(* Spec: the content store served by one worker.                           *)
(***************************************************************************)
PlainTweet(p, u, parent_tweet_id) ==
    create_tweet(p, u, Text(1), "none", parent_tweet_id, "none")

Next ==
    \E p \in {"p1"} :
        \/ \E u \in SeedUserIds, parent \in {None} \cup TweetIds : PlainTweet(p, u, parent)
        \/ create_new_tweet(p, NoContent)
        \/ \E u \in SeedUserIds, t \in TweetIds : delete_tweet(p, u, t)
        \/ \E u \in SeedUserIds, t \in TweetIds : create_like(p, u, t)
        \/ create_like_insert(p)
        \/ create_like_count(p)
        \/ \E u \in SeedUserIds, t \in TweetIds : delete_like(p, u, t)
        \/ delete_like_commit(p)
        \/ delete_like_count(p)
        \/ \E u \in SeedUserIds, t \in TweetIds : create_retweet(p, u, t)
        \/ create_retweet_insert(p)
        \/ create_retweet_refresh(p)
        \/ \E u \in SeedUserIds, t \in TweetIds : delete_retweet(p, u, t)
        \/ delete_retweet_commit(p)
        \/ \E t \in TweetIds : get_tweet_details(p, t, 0, 2)

Spec == Init /\ [][Next]_vars

(***************************************************************************)
(* Claims about the content store (checked under Spec).                    *)
(***************************************************************************)
Succeeded(r) == r.status \in {200, 201}

\* C1: delete_tweet on a tweet that exists but is not the requester's answers
\* 403 (permission denied); on a tweet id that does not exist it answers 404.
\* (A failed delete leaves the store as it was, so the tweet is looked up in
\* the state the response is sent in.)
C1_DeleteChecksExistenceThenOwner ==
    (response.op = "delete_tweet" /\ ~Succeeded(response)) =>
        IF TweetExists(response.tweet_id)
        THEN tweets[response.tweet_id].user_id # response.user
                 => response.status = 403
        ELSE response.status = 404

\* C2: a step removes a tweet only if it is a successful delete_tweet request
\* of that tweet's author; a delete_tweet request of any other user changes
\* neither tweets nor likes nor retweets.
C2_OnlyTheAuthorRemovesATweet ==
    [][ /\ \A t \in DOMAIN tweets :
              t \notin DOMAIN tweets' =>
                  /\ response'.op = "delete_tweet"
                  /\ Succeeded(response')
                  /\ response'.user = tweets[t].user_id
        /\ \A t \in DOMAIN tweets :
              ( /\ response'.op = "delete_tweet"
                /\ response'.tweet_id = t
                /\ response'.user # tweets[t].user_id )
                  => UNCHANGED <<tweets, likes, retweets>>
      ]_vars

\* C3: the like_count returned by create_like(t, u) and by delete_like(t, u)
\* is the number of Like rows of tweet t when the count is taken.
C3_LikeCountIsTheTweetsLikes ==
    (response.op \in {"create_like", "delete_like"} /\ Succeeded(response)) =>
        response.like_count = Cardinality(RowsOfTweet(likes, response.tweet_id))

\* C4: get_tweet_details(t) answers 404 when t does not exist; otherwise its
\* like_count is the number of Like rows of t and its retweet_count the
\* number of Retweet rows of t.
C4_DetailCountsAreTheTweetsRows ==
    response.op = "get_tweet_details" =>
        IF TweetExists(response.tweet_id)
        THEN /\ response.like_count =
                    Cardinality(RowsOfTweet(likes, response.tweet_id))
             /\ response.retweet_count =
                    Cardinality(RowsOfTweet(retweets, response.tweet_id))
        ELSE response.status = 404

(***************************************************************************)
(* SpecLikeRace: create_like requests served by concurrent workers.        *)
(***************************************************************************)
NextLikeRace ==
    \E p \in Procs :
        \/ \E u \in SeedUserIds : PlainTweet(p, u, None)
        \/ create_new_tweet(p, NoContent)
        \/ \E u \in SeedUserIds, t \in TweetIds : create_like(p, u, t)
        \/ create_like_insert(p)
        \/ create_like_count(p)

SpecLikeRace == Init /\ [][NextLikeRace]_vars

\* C5: whatever the interleaving of create_like requests, no (tweet, user)
\* pair has more than one Like row; a create_like request ends in 201, in 404
\* or in the already-liked error (400), never in an unhandled failure; it ends
\* in already-liked only when another request has inserted the pair's row, and
\* a request that succeeded holds the pair's only row.
C5_OneLikePerPair ==
    /\ \A row \in DOMAIN likes : likes[row] <= 1
    /\ response.op = "create_like" =>
          LET row == LikeRow(response.tweet_id, response.user)
          IN /\ response.status \in {201, 400, 404}
             /\ response.status = 400 =>
                    response.error = "AlreadyLiked" /\ Copies(likes, row) = 1
             /\ response.status = 201 => Copies(likes, row) = 1
             /\ response.status = 404 => response.error = "TweetNotFound"

\* Two requests for the same pair were both past the tweet query before
\* either inserted; one has inserted, the other has just been refused.
C5_Witness ==
    /\ response.op = "create_like"
    /\ response.error = "AlreadyLiked"
    /\ \E q \in Procs :
          /\ At(q, "create_like", "count")
          /\ req[q].tweet_id = response.tweet_id
          /\ req[q].user = response.user

(***************************************************************************)
(* POST /follow/{user_id}: follow_user in two parts: its three checks (the *)
(* last two are queries), then the insert and commit.  The follows table   *)
(* has the pair as its primary key.                                        *)
(***************************************************************************)
UserExists(u) == \E row \in users : row.id = u
FollowRow(a, b) == [follower_id |-> a, followed_id |-> b]

\* (mutant) follow_user without its first test
IsSelf_Never(user_id, current_user_id) == FALSE

\* user_id == current_user_id
IsSelf(user_id, current_user_id) == user_id = current_user_id

\* (mutant) follow_user without its query of the edge
existing_follow_Skipped(current_user_id, user_id) == FALSE

\* db.query(models.Follow).filter(follower_id == ..., followed_id == ...).first()
existing_follow(current_user_id, user_id) ==
    FollowRow(current_user_id, user_id) \in follows

\* (mutant) unfollow_user taking the edge for granted
follow_relationship_Assumed(current_user_id, user_id) == TRUE

\* the same query in unfollow_user
follow_relationship(current_user_id, user_id) ==
    FollowRow(current_user_id, user_id) \in follows

follow_user(p, user_id, current_user_id) ==
    LET r == [op |-> "follow_user", pc |-> "insert", user |-> current_user_id,
              target |-> user_id, status |-> 0, error |-> ""]
    IN
    /\ IsIdle(p)
    /\ UNCHANGED <<tables, nextId, now, mail>>
    /\ IF IsSelf(user_id, current_user_id)
       THEN Finish(p, Raise(r, "SelfFollowException"))
       ELSE IF ~UserExists(user_id)
            THEN Finish(p, Raise(r, "UserNotFound"))
            ELSE IF existing_follow(current_user_id, user_id)
                 THEN Finish(p, Raise(r, "FollowExists"))
                 ELSE Continue(p, r)

\* primary key (follower_id, followed_id)
FollowInsertViolates(row) == row \in follows

follow_user_insert(p) ==
    /\ At(p, "follow_user", "insert")
    /\ UNCHANGED <<users, tweets, likes, retweets, nextId, now, mail>>
    /\ LET r == req[p]
           row == FollowRow(r.user, r.target)
       IN IF FollowInsertViolates(row)
          THEN \* IntegrityError at commit; follow_user has no handler for it
               /\ follows' = follows
               /\ Finish(p, Raise(r, "IntegrityError"))
          ELSE /\ follows' = follows \cup {row}
               /\ Finish(p, [r EXCEPT !.status = 201])

(***************************************************************************)
(* DELETE /follow/{user_id}: unfollow_user: its checks, then the delete    *)
(* and commit.                                                             *)
(***************************************************************************)
unfollow_user(p, user_id, current_user_id) ==
    LET r == [op |-> "unfollow_user", pc |-> "delete", user |-> current_user_id,
              target |-> user_id, status |-> 0, error |-> ""]
    IN
    /\ IsIdle(p)
    /\ UNCHANGED <<tables, nextId, now, mail>>
    /\ IF IsSelf(user_id, current_user_id)
       THEN Finish(p, Raise(r, "SelfFollowException"))
       ELSE IF ~UserExists(user_id)
            THEN Finish(p, Raise(r, "UserNotFound"))
            ELSE IF ~follow_relationship(current_user_id, user_id)
                 THEN Finish(p, Raise(r, "FollowNotExists"))
                 ELSE Continue(p, r)

unfollow_user_commit(p) ==
    /\ At(p, "unfollow_user", "delete")
    /\ follows' = follows \ {FollowRow(req[p].user, req[p].target)}
    /\ Finish(p, [req[p] EXCEPT !.status = 200])
    /\ UNCHANGED <<users, tweets, likes, retweets, nextId, now, mail>>

(***************************************************************************)
(* SpecFollow: the social graph served by concurrent workers.              *)
(***************************************************************************)
\* the seed accounts and one id that belongs to no account
TargetIds == SeedUserIds \cup {Cardinality(SeedUserIds) + 1}

NextFollow ==
    \E p \in Procs :
        \/ \E a \in SeedUserIds, b \in TargetIds : follow_user(p, b, a)
        \/ follow_user_insert(p)
        \/ \E a \in SeedUserIds, b \in TargetIds : unfollow_user(p, b, a)
        \/ unfollow_user_commit(p)

SpecFollow == Init /\ [][NextFollow]_vars

\* C6: a follow request ends in 201 or in one of its domain errors (400
\* self-follow, 400 already-following, 404 target), never in an unhandled
\* primary-key failure: of two concurrent follow(a, b) that both passed the
\* existence check, the one that finds the edge inserted ends in
\* already-following (400).
C6_DuplicateFollowIsADomainError ==
    response.op = "follow_user" =>
        /\ response.status \in {201, 400, 404}
        /\ response.error \in {"", "SelfFollowException", "UserNotFound", "FollowExists"}

(***************************************************************************)
(* SpecCreate: POST /tweets with every kind of content, tone, media and    *)
(* parent, served by one worker.                                           *)
(***************************************************************************)
Author == CHOOSE u \in SeedUserIds : TRUE

NextCreate ==
    \E p \in {"p1"} :
        \/ \E content \in Contents, tone \in Tones,
              parent \in {None} \cup TweetIds, media \in Medias :
                create_tweet(p, Author, content, tone, parent, media)
        \/ \E revised \in Revisions : create_new_tweet(p, revised)

SpecCreate == Init /\ [][NextCreate]_vars

\* content that is missing, empty or whitespace only
NoVisibleText(c) == c.kind # "text"

\* C7: every tweet persisted by the create-tweet operation has content of
\* at most 280 characters, whatever the content, tone, media and parent of
\* the request: a request whose content is longer persists nothing.
C7_ContentAtMost280 ==
    /\ \A t \in DOMAIN tweets : tweets[t].content.len <= MaxTweetLength
    /\ (response.op = "create_tweet" /\ response.status = 201) =>
          /\ response.content.len <= MaxTweetLength
          /\ response.stored.len <= MaxTweetLength

\* C8 (as claimed): a create-tweet request whose content is missing, empty
\* or whitespace-only and that carries no media ends in the empty-content
\* error and persists nothing, whatever its tone and parent.
C8_BlankWithoutMediaIsEmptyTweet ==
    [][ ( /\ response'.op = "create_tweet"
          /\ NoVisibleText(response'.content)
          /\ response'.media = "none" )
          => /\ response'.error = "EmptyTweetException"
             /\ UNCHANGED tables
      ]_vars

\* C8 (amended): such a request is refused with 400 and persists nothing:
\* with the empty-content error when it names no tone, with the
\* empty-tweet-tone error when it names one; and no such request gets past
\* the router's validation.
C8_BlankWithoutMediaIsRefused ==
    [][ /\ ( /\ response'.op = "create_tweet"
             /\ NoVisibleText(response'.content)
             /\ response'.media = "none" )
             => /\ response'.status = 400
                /\ response'.error = IF ToneGiven(response'.tone)
                                     THEN "EmptyTweetToneRequestError"
                                     ELSE "EmptyTweetException"
                /\ UNCHANGED tables
        /\ \A p \in Procs :
              req'[p].op = "create_tweet" =>
                  ~(NoVisibleText(req'[p].content) /\ req'[p].media = "none")
      ]_vars

\* A whitespace-only tweet without media that names a tone has been refused.
C8_Witness ==
    /\ response.op = "create_tweet"
    /\ response.content.kind = "blank" /\ response.content.len > 0
    /\ response.media = "none"
    /\ ToneGiven(response.tone)
    /\ response.error = "EmptyTweetToneRequestError"

(***************************************************************************)
(* Identity: signup, login, email verification.                            *)
(***************************************************************************)
UserByEmail(email) == {row \in users : row.email = email}
UserByUsername(username) == {row \in users : row.username = username}

\* A verification token is the email, signed and stamped with the time of
\* signing (URLSafeTimedSerializer.dumps); a forged one fails the signature.
Token(email, issued_at) == [email |-> email, issued_at |-> issued_at, signed |-> TRUE]
Forged(email, issued_at) == [email |-> email, issued_at |-> issued_at, signed |-> FALSE]

\* decode_url_safe_token(token, expiration=3600): one hour
Expiration == 1

\* send_account_verification_email: a token for the user's email is mailed
SendVerification(email) == mail' = mail \cup {Token(email, now)}

(***************************************************************************)
(* POST /users: create_user_account: the email query, then the insert.     *)
(***************************************************************************)
create_user_account(p, email, username, password) ==
    LET r == [op |-> "create_user_account", pc |-> "insert", email |-> email,
              username |-> username, password |-> password,
              status |-> 0, error |-> ""]
    IN
    /\ IsIdle(p)
    /\ UNCHANGED <<tables, nextId, now, mail>>
    /\ IF UserByEmail(email) # {}
       THEN Finish(p, Raise(r, "EmailTakenException"))
       ELSE Continue(p, r)

\* (mutant) the users table without its unique constraints
UserInsertViolates_NoUnique(row) == FALSE

\* users.email and users.username are unique
UserInsertViolates(row) ==
    UserByEmail(row.email) # {} \/ UserByUsername(row.username) # {}

create_user_account_insert(p) ==
    /\ At(p, "create_user_account", "insert")
    /\ UNCHANGED <<tweets, likes, retweets, follows, nextId, now>>
    /\ LET r == req[p]
           new_user == UserRow(Cardinality(users) + 1, r.email, r.username,
                               hash(r.password), None)
       IN IF UserInsertViolates(new_user)
          THEN \* IntegrityError, raised as UsernameTakenException
               /\ UNCHANGED <<users, mail>>
               /\ Finish(p, Raise(r, "UsernameTakenException"))
          ELSE /\ users' = users \cup {new_user}
               /\ SendVerification(r.email)
               /\ Finish(p, [r EXCEPT !.status = 201])

(***************************************************************************)
(* GET /users/verify/{token}: activate_user_account.                       *)
(***************************************************************************)
\* What serializer.loads does with the token, and what decode_url_safe_token
\* makes of it: the signature is checked first, then the age.  An expired
\* token is raised as (users.exceptions) BadSignature; a bad signature raises
\* itsdangerous.BadSignature, which reaches "except URLSafeTimedSerializer:",
\* a class that is no exception: Python raises TypeError there.
decode_url_safe_token(token) ==
    IF ~token.signed THEN "TypeError"
    ELSE IF now - token.issued_at > Expiration THEN "BadSignature"
    ELSE "ok"

activate_user_account(p, token) ==
    LET r == [op |-> "activate_user_account", token |-> token,
              status |-> 0, error |-> ""]
        decoded == decode_url_safe_token(token)
    IN
    /\ IsIdle(p)
    /\ token.signed => token \in mail
    /\ UNCHANGED <<tweets, likes, retweets, follows, nextId, now, mail>>
    /\ IF decoded # "ok"
       THEN /\ Finish(p, Raise(r, decoded))
            /\ UNCHANGED users
       ELSE IF UserByEmail(token.email) = {}
            THEN /\ Finish(p, Raise(r, "UserNotFound"))
                 /\ UNCHANGED users
            ELSE /\ users' = {IF row.email = token.email
                              THEN [row EXCEPT !.verified_on = now]
                              ELSE row : row \in users}
                 /\ Finish(p, [r EXCEPT !.status = 200])

(***************************************************************************)
(* POST /login.                                                            *)
(***************************************************************************)
\* (mutant) login without the verification test
IsUnverified_Never(user) == FALSE

\* user.verified_on is None
IsUnverified(user) == user.verified_on = None

login(p, username, password) ==
    LET r == [op |-> "login", email |-> username, password |-> password,
              status |-> 0, error |-> "", access_token |-> "", message |-> ""]
        found == UserByEmail(username)
    IN
    /\ IsIdle(p)
    /\ UNCHANGED <<tables, nextId, now>>
    /\ IF found = {}
       THEN /\ Finish(p, Raise(r, "InvalidCredentials"))
            /\ UNCHANGED mail
       ELSE LET user == CHOOSE row \in found : TRUE
            IN IF IsUnverified(user)
               THEN /\ SendVerification(user.email)
                    /\ Finish(p, [r EXCEPT !.status = 200,
                                           !.message = "verify your email"])
               ELSE /\ UNCHANGED mail
                    /\ IF ~verify(password, user.password)
                       THEN Finish(p, Raise(r, "InvalidCredentials"))
                       ELSE Finish(p, [r EXCEPT !.status = 200,
                                                !.access_token = user.email])

Tick ==
    /\ now < MaxTime
    /\ now' = now + 1
    /\ response' = NoResponse
    /\ UNCHANGED <<tables, nextId, mail, req>>

(***************************************************************************)
(* SpecAuth: signup, verification and login on an empty users table,       *)
(* served by one worker.                                                   *)
(***************************************************************************)
InitAuth ==
    /\ users = {}
    /\ tweets = [t \in {} |-> 0]
    /\ likes = EmptyTable
    /\ retweets = EmptyTable
    /\ follows = {}
    /\ nextId = 1
    /\ now = 1
    /\ mail = {}
    /\ req = [p \in Procs |-> Idle]
    /\ response = NoResponse

Tokens ==
    {Token(e, t) : e \in Emails, t \in 1..MaxTime}
        \cup {Forged(e, 1) : e \in Emails}

NextAuth ==
    \/ \E p \in {"p1"} :
        \/ \E e \in Emails, n \in Usernames, pw \in Passwords :
              create_user_account(p, e, n, pw)
        \/ create_user_account_insert(p)
        \/ \E token \in Tokens : activate_user_account(p, token)
        \/ \E e \in Emails, pw \in Passwords : login(p, e, pw)
    \/ Tick

SpecAuth == InitAuth /\ [][NextAuth]_vars

\* C9: login issues a bearer token for an account only when that account is
\* verified and the password matches its hash; login on an unverified account
\* answers the verify-your-email message and no token; a successful
\* activation leaves the account verified, a verified account stays verified,
\* and login on a verified account with the right password returns a token.
C9_LoginState ==
    /\ response.op = "login" =>
          /\ response.access_token # "" =>
                \E user \in UserByEmail(response.email) :
                    /\ user.verified_on # None
                    /\ verify(response.password, user.password)
          /\ \A user \in UserByEmail(response.email) :
                IF user.verified_on = None
                THEN /\ response.message # ""
                     /\ response.access_token = ""
                ELSE verify(response.password, user.password) =>
                         /\ response.status = 200
                         /\ response.access_token = user.email
    /\ (response.op = "activate_user_account" /\ response.status = 200) =>
          /\ UserByEmail(response.token.email) # {}
          /\ \A user \in UserByEmail(response.token.email) : user.verified_on # None

C9_TokenOnlyAfterVerification ==
    [][ /\ C9_LoginState'
        /\ \A user \in users :
              user.verified_on # None =>
                  \E after \in users' :
                      after.id = user.id /\ after.verified_on # None
      ]_vars

\* An account signed up (first token), was refused at login an hour later
\* (second token), was activated after that and has now logged in.
C9_Witness ==
    /\ response.op = "login"
    /\ response.access_token # ""
    /\ \E user \in UserByEmail(response.email) :
          /\ user.verified_on > 1
          /\ Token(user.email, 1) \in mail
          /\ Token(user.email, 2) \in mail

\* C10: login with an email that matches no account, or with a password that
\* does not match the account's hash, ends in 401 invalid-credentials,
\* whether the account is verified or not.
C10_BadCredentialsAre401 ==
    ( /\ response.op = "login"
      /\ \/ UserByEmail(response.email) = {}
         \/ \E user \in UserByEmail(response.email) :
                ~verify(response.password, user.password) )
      => response.status = 401 /\ response.error = "InvalidCredentials"

\* C11: activation answers each token state with its own error: an expired
\* token with 410 (verification link expired), a token with an invalid
\* signature with 401 (invalid verification token), a valid token whose
\* email matches no user with 404; and none of these changes a verified_on.
C11_TokenStateErrors ==
    [][ response'.op = "activate_user_account" =>
          LET token == response'.token
              expired == now - token.issued_at > Expiration
          IN /\ ~token.signed =>
                   /\ response'.status = 401
                   /\ response'.error = "BadSignature"
                   /\ UNCHANGED users
             /\ (token.signed /\ expired) =>
                   /\ response'.status = 410
                   /\ response'.error = "VerificationLinkExpired"
                   /\ UNCHANGED users
             /\ (token.signed /\ ~expired /\ UserByEmail(token.email) = {}) =>
                   /\ response'.status = 404
                   /\ UNCHANGED users
      ]_vars

\* C12: a verification token marks an account verified at most once: an
\* activation request with a valid token for an account that is already
\* verified fails with 400 and leaves that account's verified_on unchanged.
C12_ActivationOnlyOnce ==
    [][ ( /\ response'.op = "activate_user_account"
          /\ decode_url_safe_token(response'.token) = "ok"
          /\ \E user \in UserByEmail(response'.token.email) :
                 user.verified_on # None )
          => /\ response'.status = 400
             /\ UNCHANGED users
      ]_vars

(***************************************************************************)
(* GET /tweets/home: get_home_page_tweets.  One query selects the page of  *)
(* top-level tweets, newest first; the counts of each row follow.  Rows    *)
(* with equal created_at come in whatever order the database picks.        *)
(***************************************************************************)
\* .filter(models.Tweet.parent_tweet_id == None)
IsTopLevel(t) == tweets[t].parent_tweet_id = None

\* (mutant) the following tab without its filter
InFollowing_Everyone(current_user_id, t) == TRUE

\* models.Tweet.user_id.in_(following_subquery)
InFollowing(current_user_id, t) ==
    \E row \in follows :
        row.follower_id = current_user_id /\ row.followed_id = tweets[t].user_id

\* .order_by(models.Tweet.created_at.desc()): the orders the query may return
OrderByCreatedAtDesc(S) ==
    {seq \in [1..Cardinality(S) -> S] :
        /\ \A i, j \in 1..Cardinality(S) : i # j => seq[i] # seq[j]
        /\ \A i, j \in 1..Cardinality(S) :
              i < j => tweets[seq[i]].created_at >= tweets[seq[j]].created_at}

\* (mutant) .limit(limit) without .offset(skip)
Offset_Ignored(seq, skip) == seq

\* .offset(skip)
Offset(seq, skip) == SubSeq(seq, skip + 1, Len(seq))

\* .limit(limit)
Limit(seq, limit) == SubSeq(seq, 1, IF limit < Len(seq) THEN limit ELSE Len(seq))

HomePageItem(t) ==
    [id |-> t, user_id |-> tweets[t].user_id,
     parent_tweet_id |-> tweets[t].parent_tweet_id,
     created_at |-> tweets[t].created_at,
     like_count |-> Cardinality(RowsOfTweet(likes, t)),
     retweet_count |-> Cardinality(RowsOfTweet(retweets, t)),
     comment_count |-> Cardinality({x \in DOMAIN tweets : tweets[x].parent_tweet_id = t})]

get_home_page_tweets(p, tab, skip, limit, current_user_id) ==
    LET r == [op |-> "get_home_page_tweets", tab |-> tab, skip |-> skip,
              limit |-> limit, user |-> current_user_id,
              status |-> 0, error |-> "", result |-> <<>>]
        selected == {t \in DOMAIN tweets :
                        /\ IsTopLevel(t)
                        /\ tab = "following" => InFollowing(current_user_id, t)}
    IN
    /\ IsIdle(p)
    /\ UNCHANGED <<tables, nextId, now, mail>>
    /\ \E base_query \in OrderByCreatedAtDesc(selected) :
          LET tweets_with_users == Limit(Offset(base_query, skip), limit)
          IN Finish(p, [r EXCEPT !.status = 200,
                                 !.result = [i \in 1..Len(tweets_with_users) |->
                                                HomePageItem(tweets_with_users[i])]])

(***************************************************************************)
(* SpecFeed: tweets and replies are posted, the graph changes, the clock   *)
(* runs and the home feed is read, one request at a time.                  *)
(***************************************************************************)
Tabs == {"all", "following"}

NextFeed ==
    \/ \E p \in {"p1"} :
        \/ \E u \in SeedUserIds, parent \in {None} \cup TweetIds : PlainTweet(p, u, parent)
        \/ create_new_tweet(p, NoContent)
        \/ \E a, b \in SeedUserIds : follow_user(p, b, a)
        \/ follow_user_insert(p)
        \/ \E a, b \in SeedUserIds : unfollow_user(p, b, a)
        \/ unfollow_user_commit(p)
        \/ \E tab \in Tabs, skip \in 0..MaxTweets, limit \in 1..MaxTweets,
              u \in SeedUserIds : get_home_page_tweets(p, tab, skip, limit, u)
    \/ Tick

SpecFeed == Init /\ [][NextFeed]_vars

FeedResult == {response.result[i] : i \in 1..Len(response.result)}

\* C13: every tweet the home feed returns with tab=following has an author
\* b such that the edge (viewer, b) is in the Follow relation at the time of
\* the query.
C13_FollowingTabOnlyFollowed ==
    (response.op = "get_home_page_tweets" /\ response.tab = "following") =>
        \A item \in FeedResult :
            /\ TweetExists(item.id)
            /\ tweets[item.id].user_id = item.user_id
            /\ FollowRow(response.user, item.user_id) \in follows

\* The following tab returned a tweet while a top-level tweet of an author
\* the viewer does not follow exists.
C13_Witness ==
    /\ response.op = "get_home_page_tweets"
    /\ response.tab = "following"
    /\ FeedResult # {}
    /\ \E t \in DOMAIN tweets :
          /\ tweets[t].parent_tweet_id = None
          /\ FollowRow(response.user, tweets[t].user_id) \notin follows

\* the tweets a feed request is entitled to: top-level, and for the
\* following tab written by an account the viewer follows
FeedEligible ==
    {t \in DOMAIN tweets :
        /\ tweets[t].parent_tweet_id = None
        /\ response.tab = "following" =>
              FollowRow(response.user, tweets[t].user_id) \in follows}

C15_NoSelfFollow ==
    /\ \A row \in follows : row.follower_id # row.followed_id
    /\ (response.op = "follow_user" /\ response.user = response.target) =>
          response.status = 400 /\ response.error = "SelfFollowException"

\* A self-follow was refused while the graph has an edge.
C15_Witness ==
    /\ response.op = "follow_user"
    /\ response.user = response.target
    /\ response.error = "SelfFollowException"
    /\ follows # {}

\* C16: follow(a, b) issued when the edge (a, b) exists fails with
\* already-following (400) and leaves the Follow relation unchanged; no such
\* request gets past follow_user's checks.
C16_SecondFollowIsRefused ==
    [][ /\ ( /\ response'.op = "follow_user"
             /\ UNCHANGED req
             /\ FollowRow(response'.user, response'.target) \in follows )
             => /\ response'.status = 400
                /\ response'.error = "FollowExists"
                /\ UNCHANGED follows
        /\ \A p \in Procs :
              (IsIdle(p) /\ req'[p].op = "follow_user") =>
                  FollowRow(req'[p].user, req'[p].target) \notin follows
      ]_vars

\* A second follow(a, b) was refused, the edge (a, b) still there.
C16_Witness ==
    /\ response.op = "follow_user"
    /\ response.error = "FollowExists"
    /\ FollowRow(response.user, response.target) \in follows

\* C17: unfollow(a, b) for an existing user b different from a, issued when
\* no edge (a, b) exists, fails with not-following (400) and leaves the
\* Follow relation unchanged; no such request gets past unfollow_user's
\* checks.
C17_UnfollowWithoutFollow ==
    [][ /\ ( /\ response'.op = "unfollow_user"
             /\ UNCHANGED req
             /\ response'.user # response'.target
             /\ \E row \in users : row.id = response'.target
             /\ FollowRow(response'.user, response'.target) \notin follows )
             => /\ response'.status = 400
                /\ response'.error = "FollowNotExists"
                /\ UNCHANGED follows
        /\ \A p \in Procs :
              (IsIdle(p) /\ req'[p].op = "unfollow_user") =>
                  FollowRow(req'[p].user, req'[p].target) \in follows
      ]_vars

\* unfollow(a, b) was refused while b follows a: the edge is directed.
C17_Witness ==
    /\ response.op = "unfollow_user"
    /\ response.error = "FollowNotExists"
    /\ FollowRow(response.target, response.user) \in follows

(***************************************************************************)
(* SpecReply: tweets and replies are created and deleted by concurrent     *)
(* workers.                                                                *)
(***************************************************************************)
NextReply ==
    \E p \in Procs :
        \/ \E u \in SeedUserIds, n \in {1, MaxTweetLength + 1},
              parent \in {None} \cup TweetIds :
                create_tweet(p, u, Text(n), "none", parent, "none")
        \/ create_new_tweet(p, NoContent)
        \/ \E u \in SeedUserIds, t \in TweetIds : delete_tweet(p, u, t)

SpecReply == Init /\ [][NextReply]_vars

ParentsExist ==
    \A t \in DOMAIN tweets :
        tweets[t].parent_tweet_id # None => tweets[t].parent_tweet_id \in DOMAIN tweets

C19_RepliesOutliveTheirParent ==
    [][ (response'.op = "delete_tweet" /\ response'.status = 200) =>
          \A t \in DOMAIN tweets :
              tweets[t].parent_tweet_id = response'.tweet_id => t \in DOMAIN tweets'
      ]_vars

(***************************************************************************)
(* SpecCascade: one account posts, likes, retweets and deletes through     *)
(* concurrent workers.                                                     *)
(***************************************************************************)
NextCascade ==
    \E p \in Procs :
        \/ \E parent \in {None} \cup TweetIds : PlainTweet(p, Author, parent)
        \/ create_new_tweet(p, NoContent)
        \/ \E t \in TweetIds : delete_tweet(p, Author, t)
        \/ \E t \in TweetIds : create_like(p, Author, t)
        \/ create_like_insert(p)
        \/ create_like_count(p)
        \/ \E t \in TweetIds : create_retweet(p, Author, t)
        \/ create_retweet_insert(p)
        \/ create_retweet_refresh(p)

SpecCascade == Init /\ [][NextCascade]_vars

NoDanglingRows ==
    /\ \A row \in DOMAIN likes : likes[row] > 0 => row.tweet_id \in DOMAIN tweets
    /\ \A row \in DOMAIN retweets : retweets[row] > 0 => row.tweet_id \in DOMAIN tweets

\* C20: in every committed state every Like row and every Retweet row
\* references a tweet that exists; delete_tweet(T) removes T together with
\* all likes and retweets of T in one step, and a like or retweet of a
\* deleted tweet is never inserted afterwards.
C20_NoDanglingLikesOrRetweets ==
    [][ /\ NoDanglingRows'
        /\ (response'.op = "delete_tweet" /\ response'.status = 200) =>
              /\ response'.tweet_id \in DOMAIN tweets
              /\ response'.tweet_id \notin DOMAIN tweets'
              /\ \A row \in DOMAIN likes' : row.tweet_id # response'.tweet_id
              /\ \A row \in DOMAIN retweets' : row.tweet_id # response'.tweet_id
      ]_vars

\* A tweet was deleted whose like another worker had inserted and was about
\* to count: the like went with the tweet.
C20_Witness ==
    /\ response.op = "delete_tweet"
    /\ response.status = 200
    /\ \E p \in Procs :
          /\ At(p, "create_like", "count")
          /\ req[p].tweet_id = response.tweet_id

(***************************************************************************)
(* PUT /users: update_user_details: the two queries, then the assignments, *)
(* the image uploads and the commit.                                       *)
(***************************************************************************)
\* a request that supplies nothing
NoPatch ==
    [username |-> NoneStr, full_name |-> NoneStr, bio |-> NoneStr,
     location |-> NoneStr, birth_date |-> NoneStr, profile_image |-> NoneStr,
     header_image |-> NoneStr]

\* (mutant) an assignment without its test
Assigned_Always(old, new) == new

\* if new: user.<column> = new
Assigned(old, new) == IF new # NoneStr THEN new ELSE old

\* save_image accepts these content types
ImageTypes == {"image/jpeg", "image/png"}

\* "http://localhost:8000/" + the path save_image returns
ImageUrl(folder) ==
    IF folder = "profile-images"
    THEN "http://localhost:8000/static/profile-images/file"
    ELSE "http://localhost:8000/static/header-images/file"

update_user_details(p, current_user_id, patch) ==
    LET r == [op |-> "update_user_details", pc |-> "commit",
              user |-> current_user_id, patch |-> patch,
              status |-> 0, error |-> ""]
    IN
    /\ IsIdle(p)
    /\ UNCHANGED <<tables, nextId, now, mail>>
    /\ IF ~UserExists(current_user_id)
       THEN Finish(p, Raise(r, "UserNotFound"))
       ELSE IF patch.username # NoneStr /\ UserByUsername(patch.username) # {}
            THEN Finish(p, Raise(r, "UsernameTakenException"))
            ELSE Continue(p, r)

update_user_details_commit(p) ==
    /\ At(p, "update_user_details", "commit")
    /\ UNCHANGED <<tweets, likes, retweets, follows, nextId, now, mail>>
    /\ LET r == req[p]
           patch == r.patch
           user == CHOOSE row \in users : row.id = r.user
           updated ==
               [user EXCEPT
                  !.username = Assigned(@, patch.username),
                  !.full_name = Assigned(@, patch.full_name),
                  !.bio = Assigned(@, patch.bio),
                  !.location = Assigned(@, patch.location),
                  !.birth_date = Assigned(@, patch.birth_date),
                  !.profile_image_url =
                      Assigned(@, IF patch.profile_image # NoneStr
                                  THEN ImageUrl("profile-images") ELSE NoneStr),
                  !.header_image_url =
                      Assigned(@, IF patch.header_image # NoneStr
                                  THEN ImageUrl("header-images") ELSE NoneStr)]
       IN IF \/ patch.profile_image # NoneStr /\ patch.profile_image \notin ImageTypes
             \/ patch.header_image # NoneStr /\ patch.header_image \notin ImageTypes
          THEN \* save_image raises before the commit
               /\ UNCHANGED users
               /\ Finish(p, Raise(r, "Invalid file format"))
          ELSE IF \E row \in users : row.id # user.id /\ row.username = updated.username
               THEN \* users.username unique: IntegrityError at commit, not caught
                    /\ UNCHANGED users
                    /\ Finish(p, Raise(r, "IntegrityError"))
               ELSE /\ users' = (users \ {user}) \cup {updated}
                    /\ Finish(p, [r EXCEPT !.status = 200])

(***************************************************************************)
(* SpecAccounts: accounts are created and renamed by concurrent workers.   *)
(***************************************************************************)
NewUsernames == Usernames \cup {"cat"}

NextAccounts ==
    \E p \in Procs :
        \/ \E e \in Emails, n \in NewUsernames, pw \in {"pw1"} :
              create_user_account(p, e, n, pw)
        \/ create_user_account_insert(p)
        \/ \E row \in users, n \in NewUsernames :
              update_user_details(p, row.id, [NoPatch EXCEPT !.username = n])
        \/ update_user_details_commit(p)

SpecAccounts == InitAuth /\ [][NextAccounts]_vars

\* C21: after any sequence of signups and profile updates no two users
\* share an email and no two users share a username; a signup with an email
\* already registered fails with 400 email-taken, a signup with a username
\* already registered (and a free email) fails with 400 username-taken, and
\* neither creates a user.
C21_UniqueEmailAndUsername ==
    [][ /\ \A a, b \in users' :
              (a.email = b.email \/ a.username = b.username) => a = b
        /\ \A a, b \in users' : a.id = b.id => a = b
        /\ \A p \in Procs :
              (IsIdle(p) /\ req'[p].op = "create_user_account") =>
                  \A row \in users : row.email # req'[p].email
        /\ response'.op = "create_user_account" =>
              /\ (UNCHANGED req /\ \E row \in users : row.email = response'.email)
                    => /\ response'.status = 400
                       /\ response'.error = "EmailTakenException"
                       /\ UNCHANGED users
              /\ ( /\ \E row \in users : row.username = response'.username
                   /\ \A row \in users : row.email # response'.email )
                    => /\ response'.status = 400
                       /\ response'.error = "UsernameTakenException"
                       /\ UNCHANGED users
      ]_vars

\* A signup with a registered username and a new email was refused, after a
\* rename had freed and taken usernames.
C21_Witness ==
    /\ response.op = "create_user_account"
    /\ response.error = "UsernameTakenException"
    /\ \A row \in users : row.email # response.email
    /\ \E row \in users : row.username = response.username
    /\ \E row \in users : row.username = "cat"

(***************************************************************************)
(* GET /follow/followers: get_followers_details.  The followers come from  *)
(* the relationship User.followers, in whatever order it loads them; each  *)
(* is turned into a FollowUserDetails, whose bio is a required str.        *)
(***************************************************************************)
\* the sequences of k different elements of S
Arrangements(S, k) ==
    {seq \in [1..k -> S] : \A i, j \in 1..k : i # j => seq[i] # seq[j]}

UserById(id) == CHOOSE row \in users : row.id = id

\* user.followers: the Follow rows whose followed_id is the user
FollowersOf(user_id) == {row \in follows : row.followed_id = user_id}

\* schemas.FollowUserDetails(...) accepts the row: bio: str
FollowUserDetailsValid(row) == row.bio # NoneStr

get_followers_details(p, user_id, current_user_id) ==
    LET subject == IF user_id = None THEN current_user_id ELSE user_id
        r == [op |-> "get_followers_details", user_id |-> subject,
              user |-> current_user_id, status |-> 0, error |-> "",
              followers |-> <<>>]
        followers == {UserById(row.follower_id) : row \in FollowersOf(subject)}
        Details(follower) ==
            [id |-> follower.id, username |-> follower.username,
             bio |-> follower.bio,
             is_followed |-> FollowRow(current_user_id, follower.id) \in follows]
    IN
    /\ IsIdle(p)
    /\ UNCHANGED <<tables, nextId, now, mail>>
    /\ IF ~UserExists(subject)
       THEN Finish(p, Raise(r, "UserNotFound"))
       ELSE IF \E follower \in followers : ~FollowUserDetailsValid(follower)
            THEN \* pydantic.ValidationError, not caught
                 Finish(p, Raise(r, "ValidationError"))
            ELSE \E order \in Arrangements(followers, Cardinality(followers)) :
                    Finish(p, [r EXCEPT !.status = 200,
                                        !.followers = [i \in DOMAIN order |->
                                                          Details(order[i])]])

(***************************************************************************)
(* GET /follow/suggestions: get_follow_suggestions.                        *)
(***************************************************************************)
\* the users the query selects: not the caller, not followed by the caller
SuggestionCandidates(current_user_id) ==
    {row \in users :
        /\ row.id # current_user_id
        /\ FollowRow(current_user_id, row.id) \notin follows}

Min(a, b) == IF a < b THEN a ELSE b

get_follow_suggestions(p, current_user_id, limit) ==
    LET r == [op |-> "get_follow_suggestions", user |-> current_user_id,
              limit |-> limit, status |-> 0, error |-> "", result |-> <<>>]
        candidates == SuggestionCandidates(current_user_id)
        k == Min(Cardinality(candidates), limit)
    IN
    /\ IsIdle(p)
    /\ UNCHANGED <<tables, nextId, now, mail>>
    /\ IF k < 0
       THEN \* random.sample with a negative k raises ValueError, not caught
            Finish(p, Raise(r, "ValueError"))
       ELSE \E suggested_users \in Arrangements(candidates, k) :
               Finish(p, [r EXCEPT !.status = 200,
                                   !.result = [i \in DOMAIN suggested_users |->
                                                  suggested_users[i].id]])

(***************************************************************************)
(* SpecGraphViews: the graph changes, bios are written and the followers   *)
(* listing and the suggestions are read, one request at a time.            *)
(***************************************************************************)
\* the values of the query parameter limit: int = 5 (no bounds declared)
SuggestionLimits == {0 - 1, 0, 1, 2}

NextGraphViews ==
    \E p \in {"p1"} :
        \/ \E a, b \in SeedUserIds : follow_user(p, b, a)
        \/ follow_user_insert(p)
        \/ \E a, b \in SeedUserIds : unfollow_user(p, b, a)
        \/ unfollow_user_commit(p)
        \/ \E u \in SeedUserIds :
              update_user_details(p, u, [NoPatch EXCEPT !.bio = "bio"])
        \/ update_user_details_commit(p)
        \/ \E b \in {None} \cup TargetIds, viewer \in SeedUserIds :
              get_followers_details(p, b, viewer)
        \/ \E viewer \in SeedUserIds, limit \in SuggestionLimits :
              get_follow_suggestions(p, viewer, limit)

SpecGraphViews == Init /\ [][NextGraphViews]_vars

\* C22: the followers listing for user B, requested by a viewer, has exactly
\* one entry for each user u with an edge (u, B) and no other entry, and
\* each entry's is_followed is true exactly when the edge (viewer, u)
\* exists.
C22_FollowersListing ==
    (response.op = "get_followers_details" /\ UserExists(response.user_id)) =>
        LET listing == response.followers
        IN /\ response.status = 200
           /\ \A row \in follows :
                 row.followed_id = response.user_id =>
                     Cardinality({i \in DOMAIN listing :
                                     listing[i].id = row.follower_id}) = 1
           /\ \A i \in DOMAIN listing :
                 /\ FollowRow(listing[i].id, response.user_id) \in follows
                 /\ listing[i].is_followed =
                       (FollowRow(response.user, listing[i].id) \in follows)

\* C23: for every limit the endpoint accepts, get_follow_suggestions
\* returns min(limit, |E|) pairwise distinct users of E, the users other
\* than the viewer whom the viewer does not follow; never an error, and the
\* empty list when E is empty.
C23_Suggestions ==
    response.op = "get_follow_suggestions" =>
        LET E == {row.id : row \in {x \in users :
                      /\ x.id # response.user
                      /\ FollowRow(response.user, x.id) \notin follows}}
            result == response.result
        IN /\ response.status = 200
           /\ E = {} => result = <<>>
           /\ \A i \in DOMAIN result : result[i] \in E
           /\ \A i, j \in DOMAIN result : i # j => result[i] # result[j]
           /\ response.limit >= 0 =>
                 Len(result) = (IF response.limit < Cardinality(E)
                                THEN response.limit ELSE Cardinality(E))

(***************************************************************************)
(* GET /tweets/users/{user_id}/tweets: get_user_tweets.  Two queries       *)
(* without ORDER BY, each cut by .offset(skip).limit(limit); the rows of   *)
(* both are put in one list, which is sorted by created_at, newest first.  *)
(***************************************************************************)
\* the user's top-level tweets
UserTopLevelTweets(user_id) ==
    {t \in DOMAIN tweets :
        tweets[t].user_id = user_id /\ tweets[t].parent_tweet_id = None}

\* db.query(Tweet).join(Retweet).filter(Retweet.user_id == user_id): one row
\* for each retweet of the user
UserRetweets(user_id) ==
    {row \in DOMAIN retweets : row.user_id = user_id /\ retweets[row] > 0}

\* list.sort(key=created_at, reverse=True): stable, equal keys keep their order
RECURSIVE SortNewestFirst(_)
SortNewestFirst(seq) ==
    IF seq = <<>> THEN <<>>
    ELSE LET head == seq[1]
             rest == SortNewestFirst(Tail(seq))
             newer == SelectSeq(rest, LAMBDA x : x.created_at > head.created_at)
             others == SelectSeq(rest, LAMBDA x : x.created_at <= head.created_at)
         IN newer \o <<head>> \o others

get_user_tweets(p, user_id, skip, limit) ==
    LET r == [op |-> "get_user_tweets", user_id |-> user_id, skip |-> skip,
              limit |-> limit, status |-> 0, error |-> "", tweets |-> <<>>]
        own == UserTopLevelTweets(user_id)
        shared == UserRetweets(user_id)
        tweet_response(t) ==
            [id |-> t, created_at |-> tweets[t].created_at, is_retweet |-> FALSE]
        retweet_response(row) ==
            [id |-> row.tweet_id, created_at |-> row.created_at, is_retweet |-> TRUE]
    IN
    /\ IsIdle(p)
    /\ UNCHANGED <<tables, nextId, now, mail>>
    /\ IF ~UserExists(user_id)
       THEN Finish(p, Raise(r, "UserNotFound"))
       ELSE \E tweets_query \in Arrangements(own, Cardinality(own)),
               retweets_query \in Arrangements(shared, Cardinality(shared)) :
              LET page == Limit(Offset(tweets_query, skip), limit)
                  retweets_page == Limit(Offset(retweets_query, skip), limit)
                  combined_results ==
                      [i \in DOMAIN page |-> tweet_response(page[i])]
                          \o [i \in DOMAIN retweets_page |->
                                 retweet_response(retweets_page[i])]
              IN Finish(p, [r EXCEPT !.status = 200,
                                     !.tweets = SortNewestFirst(combined_results)])

(***************************************************************************)
(* SpecUserTweets: tweets are posted and retweeted, the clock runs and a   *)
(* user's tweets are read, one request at a time.                          *)
(***************************************************************************)
NextUserTweets ==
    \/ \E p \in {"p1"} :
        \/ \E u \in SeedUserIds, parent \in {None} \cup TweetIds : PlainTweet(p, u, parent)
        \/ create_new_tweet(p, NoContent)
        \/ \E u \in SeedUserIds, t \in TweetIds : create_retweet(p, u, t)
        \/ create_retweet_insert(p)
        \/ create_retweet_refresh(p)
        \/ \E u \in TargetIds, skip \in 0..1, limit \in 1..MaxTweets :
              get_user_tweets(p, u, skip, limit)
    \/ Tick

SpecUserTweets == Init /\ [][NextUserTweets]_vars

\* what the claim merges: the user's top-level tweets under their own
\* created_at, the tweets the user retweeted under the retweet's created_at
MergedTimeline(user_id) ==
    {[id |-> t, created_at |-> tweets[t].created_at, is_retweet |-> FALSE] :
        t \in {x \in DOMAIN tweets :
                  tweets[x].user_id = user_id /\ tweets[x].parent_tweet_id = None}}
    \cup
    {[id |-> row.tweet_id, created_at |-> row.created_at, is_retweet |-> TRUE] :
        row \in {x \in DOMAIN retweets : x.user_id = user_id /\ retweets[x] > 0}}

\* C24: get_user_tweets(user, skip, limit) returns the elements at positions
\* skip .. skip+limit-1 of the user's top-level tweets merged with the
\* tweets the user retweeted (under the retweet's created_at), sorted by
\* timestamp descending: at most limit items; and it fails with not-found
\* when the user does not exist.
C24_UserTweetsPage ==
    response.op = "get_user_tweets" =>
        IF \A row \in users : row.id # response.user_id
        THEN response.status = 404 /\ response.error = "UserNotFound"
        ELSE LET merged == MergedTimeline(response.user_id)
                 n == Cardinality(merged)
                 result == response.tweets
             IN /\ response.status = 200
                /\ Len(result) <= response.limit
                /\ \E full \in [1..n -> merged] :
                      /\ \A i, j \in 1..n : i # j => full[i] # full[j]
                      /\ \A i, j \in 1..n :
                            i < j => full[i].created_at >= full[j].created_at
                      /\ Len(result) =
                            (IF response.skip >= n THEN 0
                             ELSE IF n - response.skip < response.limit
                                  THEN n - response.skip ELSE response.limit)
                      /\ \A i \in 1..Len(result) : result[i] = full[response.skip + i]

\* C25: create_retweet and delete_retweet each return the updated retweet
\* count of the target tweet: the number of Retweet rows of that tweet right
\* after the operation.
C25_RetweetReturnsCount ==
    ( /\ response.op \in {"create_retweet", "delete_retweet"}
      /\ response.status \in {200, 201} )
      => /\ "retweet_count" \in DOMAIN response
         /\ response.retweet_count =
               Cardinality(RowsOfTweet(retweets, response.tweet_id))

\* C26: a user cannot retweet their own tweets: create_retweet(t, u) by the
\* author of t fails with 400, and no Retweet row has the user_id of the
\* author of its tweet.
C26_NoRetweetOfOwnTweet ==
    /\ \A row \in DOMAIN retweets :
          (retweets[row] > 0 /\ row.tweet_id \in DOMAIN tweets) =>
              row.user_id # tweets[row.tweet_id].user_id
    /\ ( /\ response.op = "create_retweet"
         /\ response.tweet_id \in DOMAIN tweets
         /\ tweets[response.tweet_id].user_id = response.user )
         => response.status = 400

(***************************************************************************)
(* SpecProfile: one account edits its profile, one request at a time.      *)
(***************************************************************************)
PatchFields == DOMAIN NoPatch

\* the requests: every choice of values that supplies at most two fields
Patches ==
    {patch \in [username : {NoneStr} \cup NewUsernames,
                full_name : {NoneStr, "name2"},
                bio : {NoneStr, "bio", "bio2"},
                location : {NoneStr, "place"},
                birth_date : {NoneStr, "1990-01-01"},
                profile_image : {NoneStr, "image/png", "text/plain"},
                header_image : {NoneStr, "image/png", "text/plain"}] :
        Cardinality({f \in PatchFields : patch[f] # NoneStr}) <= 2}

NextProfile ==
    \E p \in {"p1"} :
        \/ \E patch \in Patches : update_user_details(p, Author, patch)
        \/ update_user_details_commit(p)

SpecProfile == Init /\ [][NextProfile]_vars

\* the value a supplied field leaves in its column
Supplied(patch, column) ==
    CASE column = "profile_image_url" ->
            IF patch.profile_image = NoneStr THEN NoneStr
            ELSE "http://localhost:8000/static/profile-images/file"
      [] column = "header_image_url" ->
            IF patch.header_image = NoneStr THEN NoneStr
            ELSE "http://localhost:8000/static/header-images/file"
      [] OTHER -> patch[column]

ProfileColumns ==
    {"username", "full_name", "bio", "location", "birth_date",
     "profile_image_url", "header_image_url"}

C28_AlreadyLikedOnlyIfLiked ==
    [][ (response'.op = "create_like" /\ response'.error = "AlreadyLiked") =>
          \E row \in DOMAIN likes :
              /\ likes[row] > 0
              /\ row.tweet_id = response'.tweet_id
              /\ row.user_id = response'.user
      ]_vars

(***************************************************************************)
(* SpecErrors: one account follows, posts, likes, retweets and deletes     *)
(* through concurrent workers, with targets that exist and that do not.    *)
(***************************************************************************)
NextErrors ==
    \E p \in Procs :
        \/ \E b \in TargetIds : follow_user(p, b, Author)
        \/ follow_user_insert(p)
        \/ \E b \in TargetIds : unfollow_user(p, b, Author)
        \/ unfollow_user_commit(p)
        \/ \E parent \in {None} \cup TweetIds : PlainTweet(p, Author, parent)
        \/ create_new_tweet(p, NoContent)
        \/ \E t \in TweetIds : delete_tweet(p, Author, t)
        \/ \E t \in TweetIds : create_like(p, Author, t)
        \/ create_like_insert(p)
        \/ create_like_count(p)
        \/ \E t \in TweetIds : delete_like(p, Author, t)
        \/ delete_like_commit(p)
        \/ delete_like_count(p)
        \/ \E t \in TweetIds : create_retweet(p, Author, t)
        \/ create_retweet_insert(p)
        \/ create_retweet_refresh(p)
        \/ \E t \in TweetIds : delete_retweet(p, Author, t)
        \/ delete_retweet_commit(p)

SpecErrors == Init /\ [][NextErrors]_vars

DomainErrors ==
    {"SelfFollowException", "UserNotFound", "TweetNotFound", "LikeNotFound",
     "RetweetNotFound", "AlreadyLiked", "AlreadyRetweeted", "FollowExists",
     "FollowNotExists", "InvaildParentTweet"}

\* C29: a follow, unfollow, create_like, delete_like, create_retweet,
\* delete_retweet, create_new_tweet or delete_tweet call that ends in a
\* domain error leaves the five tables as they were before the call: the
\* step that raises writes nothing, and it is the call's first step or
\* follows steps that only read.
C29_DomainErrorsWriteNothing ==
    [][ LET failed == /\ response'.op # "none"
                      /\ response'.error \in DomainErrors
        IN /\ failed => UNCHANGED tables
           /\ \A p \in Procs :
                 /\ (req[p] # req'[p] /\ IsIdle(p)) => UNCHANGED tables
                 /\ (req[p] # req'[p] /\ ~IsIdle(p) /\ failed)
                       => (req[p].pc = "insert" /\ req[p].op # "follow_user")
      ]_vars

\* A second like of a pair was refused at its insert, the pair's row, a
\* retweet and a follow edge in place.
C29_Witness ==
    /\ response.op = "create_like"
    /\ response.error = "AlreadyLiked"
    /\ response.tweet_id \in DOMAIN tweets
    /\ Copies(likes, LikeRow(response.tweet_id, response.user)) = 1
    /\ \E row \in DOMAIN retweets : retweets[row] > 0
    /\ follows # {}

(***************************************************************************)
(* GET /users/{user_id} (src/users/routers.py, src/users/service.py).       *)
(***************************************************************************)
\* the number of rows of table T among the column values S
RECURSIVE RowCount(_, _)
RowCount(T, S) ==
    IF S = {} THEN 0
    ELSE LET row == CHOOSE x \in S : TRUE
         IN Copies(T, row) + RowCount(T, S \ {row})

get_follow_stats(user_id) ==
    [num_followers |-> Cardinality({row \in follows : row.followed_id = user_id}),
     num_following |-> Cardinality({row \in follows : row.follower_id = user_id})]

\* count(Tweet.id) of the user (replies are tweets) + count(Retweet.id) of the user
get_user_total_tweet_count(user_id) ==
    Cardinality({t \in DOMAIN tweets : tweets[t].user_id = user_id})
    + RowCount(retweets, {row \in DOMAIN retweets : row.user_id = user_id})

\* service.get_user_details: the Follow row (current_user_id, user_id)
is_followed(user_id, current_user_id) ==
    \E row \in follows :
        row.follower_id = current_user_id /\ row.followed_id = user_id

\* UserDetailsBase declares verified_on: datetime, without None
UserDetailsValid(row) == row.verified_on # None

\* the router: follow stats of user_id, the user and the follow status from
\* the service (UserNotFound), the response model validated, then the tweet
\* count asked for current_user.id
get_user_details(p, user_id, current_user_id) ==
    LET r == [op |-> "get_user_details", user |-> current_user_id,
              user_id |-> user_id, status |-> 0, error |-> ""]
        follow_stats == get_follow_stats(user_id)
    IN
    /\ IsIdle(p)
    /\ UNCHANGED <<tables, nextId, now, mail>>
    /\ IF ~UserExists(user_id)
       THEN Finish(p, Raise(r, "UserNotFound"))
       ELSE IF ~UserDetailsValid(UserById(user_id))
       THEN Finish(p, Raise(r, "ValidationError"))
       ELSE Finish(p, [status |-> 200,
                       id |-> UserById(user_id).id,
                       username |-> UserById(user_id).username,
                       is_followed |-> is_followed(user_id, current_user_id),
                       tweet_count |->
                           get_user_total_tweet_count(current_user_id)]
                      @@ follow_stats @@ r)

(***************************************************************************)
(* SpecDetails: the accounts follow each other, post, reply and retweet,   *)
(* and look each other up, one request at a time.                          *)
(***************************************************************************)
NextDetails ==
    \E p \in {"p1"} :
        \/ \E a, b \in SeedUserIds : follow_user(p, b, a)
        \/ follow_user_insert(p)
        \/ \E a, b \in SeedUserIds : unfollow_user(p, b, a)
        \/ unfollow_user_commit(p)
        \/ \E u \in SeedUserIds, parent \in {None} \cup TweetIds :
              PlainTweet(p, u, parent)
        \/ create_new_tweet(p, NoContent)
        \/ \E u \in SeedUserIds, t \in TweetIds : create_retweet(p, u, t)
        \/ create_retweet_insert(p)
        \/ create_retweet_refresh(p)
        \/ \E user_id \in TargetIds, viewer \in SeedUserIds :
              get_user_details(p, user_id, viewer)

SpecDetails == Init /\ [][NextDetails]_vars

\* C30: the user-details endpoint for a requested user X, called by any
\* viewer, reports values that all describe X: num_followers is the number
\* of Follow edges into X, num_following the number of edges out of X,
\* tweet_count the number of X's tweets (replies included) plus X's
\* retweets, and is_followed whether the edge (viewer, X) exists.
C30_UserDetailsDescribeTheRequestedUser ==
    (response.op = "get_user_details" /\ response.status = 200) =>
        LET X == response.user_id
            viewer == response.user
        IN /\ response.id = X
           /\ response.num_followers =
                 Cardinality({row \in follows : row.followed_id = X})
           /\ response.num_following =
                 Cardinality({row \in follows : row.follower_id = X})
           /\ response.tweet_count =
                 Cardinality({t \in DOMAIN tweets : tweets[t].user_id = X})
                 + Cardinality({row \in DOMAIN retweets :
                                   row.user_id = X /\ retweets[row] > 0})
           /\ response.is_followed = (FollowRow(viewer, X) \in follows)

====
